---- MODULE Spec2Model ----
(***************************************************************************)
(* The C-compatible boundary of the module cache (cache.rs): init_cache,   *)
(* save_wasm, load_wasm, pin, unpin, analyze_code and release_cache, each  *)
(* modelled as one atomic call made by a foreign caller.                   *)
(*                                                                         *)
(* The cache engine (cosmwasm_vm::Cache), the error helpers (crate::error) *)
(* and the buffer types (crate::memory) are not part of cache.rs; they are *)
(* modelled at their interface.  Callers respect the safety contract of    *)
(* release_cache: a released pointer is never passed again.  Every engine  *)
(* is built on a base directory of its own, as in the tests (TempDir).     *)
(***************************************************************************)
EXTENDS Integers, Sequences, FiniteSets, TLC

\* Number of cache pointers the allocator can hand out in one run.
NumHandles == 2

\* The null pointer (ptr.is_null()).
NULL == 0

Handle == 1..NumHandles

\* Length of a cosmwasm_vm::Checksum in bytes.
ChecksumLen == 32

(***************************************************************************)
(* Option and Result values                                                *)
(***************************************************************************)
None == [some |-> FALSE, val |-> <<>>]
Some(v) == [some |-> TRUE, val |-> v]

\* crate::error::Error, by variant; `detail` is the argument name or the
\* engine's message.
NoError == [kind |-> "none", detail |-> ""]
Error_empty_arg(name) == [kind |-> "empty_arg", detail |-> name]
Error_invalid_utf8 == [kind |-> "invalid_utf8", detail |-> "utf8"]
Error_panic == [kind |-> "panic", detail |-> "Caught panic"]
Error_vm_err(msg) == [kind |-> "vm_err", detail |-> msg]

\* Error::to_string().into_bytes(): the message written to the caller.
ErrorMessage(e) == <<e.kind, e.detail>>

\* crate::args
CACHE_ARG == "cache"
WASM_ARG == "wasm"
CHECKSUM_ARG == "checksum"
DATA_DIR_ARG == "data_dir"
FEATURES_ARG == "supported_features"

\* The value a call hands back: a pointer, a buffer or a report.
NoValue == [ptr |-> NULL, buf |-> <<>>, report |-> FALSE]
PtrValue(p) == [ptr |-> p, buf |-> <<>>, report |-> FALSE]
BufValue(b) == [ptr |-> NULL, buf |-> b, report |-> FALSE]
ReportValue(f) == [ptr |-> NULL, buf |-> <<>>, report |-> f]

Ok(v) == [ok |-> TRUE, val |-> v, err |-> NoError]
Err(e) == [ok |-> FALSE, val |-> NoValue, err |-> e]

(***************************************************************************)
(* crate::memory: ByteSliceView and Buffer as the caller fills them        *)
(***************************************************************************)
NilBuf == [is_nil |-> TRUE, bytes |-> <<>>]
Buf(b) == [is_nil |-> FALSE, bytes |-> b]

\* ByteSliceView::read: None only for a nil view; a present view of zero
\* bytes is read as an empty slice.
ByteSliceView_read(v) == IF v.is_nil THEN None ELSE Some(v.bytes)

\* Buffer::read: None for a null pointer or a zero length.
Buffer_read(b) == IF b.is_nil \/ Len(b.bytes) = 0 THEN None ELSE Some(b.bytes)

\* The caller's buffer after Buffer::read: the slice only borrows it.
Buffer_borrowed(b) == b

\* The caller's buffer after Buffer::consume: its memory has been freed and
\* the caller is left with a dangling pointer.
Dangling == [is_nil |-> FALSE, bytes |-> <<>>, dangling |-> TRUE]
Buffer_consumed(b) == IF b.is_nil THEN b ELSE Dangling

(***************************************************************************)
(* UTF-8 validation (String::from_utf8, std::str::from_utf8)               *)
(***************************************************************************)
IsCont(b) == b >= 128 /\ b <= 191

RECURSIVE Utf8From(_, _)
Utf8From(s, i) ==
    IF i > Len(s) THEN TRUE
    ELSE LET b == s[i]
             n == Len(s) - i
         IN  IF b <= 127 THEN Utf8From(s, i + 1)
             ELSE IF b >= 194 /\ b <= 223
                  THEN n >= 1 /\ IsCont(s[i + 1]) /\ Utf8From(s, i + 2)
             ELSE IF b >= 224 /\ b <= 239
                  THEN /\ n >= 2
                       /\ IsCont(s[i + 1]) /\ IsCont(s[i + 2])
                       /\ (b = 224 => s[i + 1] >= 160)
                       /\ (b = 237 => s[i + 1] <= 159)
                       /\ Utf8From(s, i + 3)
             ELSE IF b >= 240 /\ b <= 244
                  THEN /\ n >= 3
                       /\ IsCont(s[i + 1]) /\ IsCont(s[i + 2]) /\ IsCont(s[i + 3])
                       /\ (b = 240 => s[i + 1] >= 144)
                       /\ (b = 244 => s[i + 1] <= 143)
                       /\ Utf8From(s, i + 4)
             ELSE FALSE

from_utf8(bytes) == IF Utf8From(bytes, 1) THEN Ok(BufValue(bytes)) ELSE Err(Error_invalid_utf8)

(***************************************************************************)
(* Test data                                                               *)
(***************************************************************************)
\* A module starts with the magic byte 0; byte 2 marks an exported IBC
\* entry point.
HACKATOM == <<0, 1>>
IBC_REFLECT == <<0, 1, 2>>
\* Bytes that are no module at all.
NOT_WASM == <<7>>

\* "borken\0dir": valid UTF-8 with an embedded nul byte.
BORKEN_DIR == <<98, 0, 100>>
\* A usable directory (TempDir) with a two-byte character in its name, and
\* bytes that are not UTF-8.
TEMP_DIR == <<116, 195, 169>>
NOT_UTF8 == <<102, 255>>
\* b"staking"
STAKING == <<115, 116>>

Modules == {HACKATOM, IBC_REFLECT}

\* What the caller passes for the buffer arguments.
WasmArgs == {NilBuf, Buf(<<>>), Buf(NOT_WASM)} \cup {Buf(w) : w \in Modules}
DirArgs == {NilBuf, Buf(<<>>), Buf(NOT_UTF8), Buf(BORKEN_DIR), Buf(TEMP_DIR)}
FeatureArgs == {NilBuf, Buf(NOT_UTF8), Buf(STAKING)}

\* The caller's out_error: no parameter (None), an empty Buffer, or a Buffer
\* still holding an older message.
NoErrParam == [present |-> FALSE, bytes |-> <<>>]
ErrParam(m) == [present |-> TRUE, bytes |-> m]
STALE == <<"stale", "message">>
ErrArgs == {NoErrParam, ErrParam(<<>>), ErrParam(STALE)}

(***************************************************************************)
(* The engine, cosmwasm_vm::Cache, at its interface                        *)
(***************************************************************************)
RECURSIVE SumBytes(_)
SumBytes(s) == IF s = <<>> THEN 0 ELSE Head(s) + SumBytes(Tail(s))

\* Checksum::generate: a digest of fixed length, distinct for distinct
\* modules of the model.
Checksum_generate(wasm) ==
    LET sum == SumBytes(wasm)
        len == Len(wasm)
    IN  [i \in 1..ChecksumLen |-> (sum + i * len) % 256]

\* Checksum::try_from(&[u8]): only the length is validated.
Checksum_try_from(bytes) ==
    IF Len(bytes) # ChecksumLen
    THEN Err(Error_vm_err("Checksum not of length 32"))
    ELSE Ok(BufValue(bytes))

\* What the caller passes for a checksum: nothing, zero bytes, a checksum
\* cut short, and the checksums of the modules.
ChecksumArgs ==
    {NilBuf, Buf(<<>>), Buf(SubSeq(Checksum_generate(HACKATOM), 1, ChecksumLen - 1))}
        \cup {Buf(Checksum_generate(w)) : w \in Modules}

\* Static validation of a module by the engine.
IsWasm(wasm) == Len(wasm) > 0 /\ wasm[1] = 0
HasIbcEntryPoints(wasm) == \E i \in 1..Len(wasm) : wasm[i] = 2

NOT_FOUND == "Error opening Wasm file for reading"

\* The result of an engine method: its Result, the engine's stored modules
\* and pinned checksums afterwards.
EngineOut(r, store, pins) == [r |-> r, store |-> store, pins |-> pins]

\* Cache::new: creates the directories under base_dir.
Cache_new(base_dir) ==
    IF \E i \in 1..Len(base_dir) : base_dir[i] = 0
    THEN Err(Error_vm_err("Error creating Wasm dir for cache: data provided contains a nul byte"))
    ELSE Ok(NoValue)

Cache_save_wasm(store, pins, wasm) ==
    IF IsWasm(wasm)
    THEN EngineOut(Ok(BufValue(Checksum_generate(wasm))), store \cup {wasm}, pins)
    ELSE EngineOut(Err(Error_vm_err("Wasm bytecode could not be deserialized")), store, pins)

Stored(store, checksum) == {w \in store : Checksum_generate(w) = checksum}

Cache_load_wasm(store, pins, checksum) ==
    LET found == Stored(store, checksum)
    IN  IF found # {}
        THEN EngineOut(Ok(BufValue(CHOOSE w \in found : TRUE)), store, pins)
        ELSE EngineOut(Err(Error_vm_err(NOT_FOUND)), store, pins)

Cache_pin(store, pins, checksum) ==
    IF checksum \in pins THEN EngineOut(Ok(NoValue), store, pins)
    ELSE IF Stored(store, checksum) # {}
         THEN EngineOut(Ok(NoValue), store, pins \cup {checksum})
         ELSE EngineOut(Err(Error_vm_err(NOT_FOUND)), store, pins)

\* PinnedMemoryCache::remove: removing an absent entry is no error.
Cache_unpin(store, pins, checksum) ==
    EngineOut(Ok(NoValue), store, pins \ {checksum})

Cache_analyze(store, pins, checksum) ==
    LET found == Stored(store, checksum)
    IN  IF found # {}
        THEN EngineOut(Ok(ReportValue(HasIbcEntryPoints(CHOOSE w \in found : TRUE))),
                       store, pins)
        ELSE EngineOut(Err(Error_vm_err(NOT_FOUND)), store, pins)

(***************************************************************************)
(* State                                                                   *)
(***************************************************************************)
VARIABLES
    handles,     \* per pointer: "absent", "live" or "released"
    wasm_store,  \* per pointer: the modules its engine has stored
    pinned,      \* per pointer: the checksums its engine has pinned
    saved,       \* per pointer: <<checksum, module>> of every save_wasm that
                 \* returned a checksum to the caller (history)
    last_error,  \* the process-wide last-error slot (<<>>: empty)
    last,        \* the call that has just returned: its arguments and what
                 \* the caller got; NoCall once the caller has taken them
                 \* (ThreadSpec: the followed call and its thread;
                 \* BufferSpec: the call and the caller's buffers)
    crashed      \* a panic has unwound out of an extern "C" function

vars == <<handles, wasm_store, pinned, saved, last_error, last, crashed>>

\* to_cache: None for the null pointer, else the engine behind it.
to_cache(ptr) == IF ptr = NULL THEN None ELSE Some(ptr)

\* The outcome of a closure run under catch_unwind: whether it panicked,
\* whether it reached the engine, its Result and the engine state it leaves.
Outcome(panic, engine, r, store, pins) ==
    [panic |-> panic, engine |-> engine, r |-> r, store |-> store, pins |-> pins]
Returned(c, r) == Outcome(FALSE, FALSE, r, wasm_store[c], pinned[c])
Panicked(c) == Outcome(TRUE, TRUE, Err(NoError), wasm_store[c], pinned[c])
Called(e) == Outcome(FALSE, TRUE, e.r, e.store, e.pins)
\* No engine at all: the pointer was null.
NoEngine(r) == Outcome(FALSE, FALSE, r, {}, {})

\* catch_unwind(..).unwrap_or_else(|_| Err(Error::panic()))
catch_unwind(o) ==
    IF o.panic THEN [o EXCEPT !.r = Err(Error_panic)] ELSE o

(***************************************************************************)
(* crate::error: the last-error slot and the caller's out_error            *)
(***************************************************************************)
\* clear_error(): the slot afterwards.
clear_error == <<>>

\* set_error(e, err): the slot holds the message, and so does out_error
\* when the caller passed one.
set_error(e, err) ==
    [slot |-> ErrorMessage(e),
     err  |-> IF err.present THEN ErrParam(ErrorMessage(e)) ELSE err]

\* What a call leaves: its return value, the slot and out_error.
Finish(ret, slot, err) == [ret |-> ret, slot |-> slot, err |-> err]

\* handle_c_error_binary followed by Buffer::from_vec.
handle_c_error_binary(r, err) ==
    IF r.ok
    THEN Finish(BufValue(r.val.buf), clear_error, err)
    ELSE LET e == set_error(r.err, err) IN Finish(BufValue(<<>>), e.slot, e.err)

\* handle_c_error_default for a Result<(), Error>.
handle_c_error_default(r, err) ==
    IF r.ok
    THEN Finish(NoValue, clear_error, err)
    ELSE LET e == set_error(r.err, err) IN Finish(NoValue, e.slot, e.err)

(***************************************************************************)
(* init_cache                                                              *)
(***************************************************************************)
\* Size::mebi
Size_mebi(n) == n * 1024 * 1024

\* Box::into_raw(Box::new(cache)): a pointer not handed out before, NULL
\* when the model has none left.
NewPtr ==
    IF \E h \in Handle : handles[h] = "absent"
    THEN CHOOSE h \in Handle :
            handles[h] = "absent" /\ \A g \in Handle : handles[g] = "absent" => h <= g
    ELSE NULL

\* Faulty variant: the error of Cache::new is dropped and a pointer returned anyway.
do_init_cache_unchecked(data_dir, supported_features, cache_size, instance_memory_limit, fault) ==
    LET dir == ByteSliceView_read(data_dir)
        features_bin == ByteSliceView_read(supported_features)
    IN  IF ~dir.some THEN NoEngine(Err(Error_empty_arg(DATA_DIR_ARG)))
        ELSE IF ~from_utf8(dir.val).ok THEN NoEngine(Err(from_utf8(dir.val).err))
        ELSE IF ~features_bin.some THEN NoEngine(Err(Error_empty_arg(FEATURES_ARG)))
        ELSE IF ~from_utf8(features_bin.val).ok
             THEN NoEngine(Err(from_utf8(features_bin.val).err))
        ELSE IF fault THEN Outcome(TRUE, TRUE, Err(NoError), {}, {})
        ELSE Outcome(FALSE, TRUE, Ok(PtrValue(NewPtr)), {}, {})

\* `fault`: the code reached after validation (the expect()s, Cache::new)
\* panics.
do_init_cache(data_dir, supported_features, cache_size, instance_memory_limit, fault) ==
    LET dir == ByteSliceView_read(data_dir)
        features_bin == ByteSliceView_read(supported_features)
    IN  IF ~dir.some THEN NoEngine(Err(Error_empty_arg(DATA_DIR_ARG)))
        ELSE IF ~from_utf8(dir.val).ok THEN NoEngine(Err(from_utf8(dir.val).err))
        ELSE IF ~features_bin.some THEN NoEngine(Err(Error_empty_arg(FEATURES_ARG)))
        ELSE IF ~from_utf8(features_bin.val).ok
             THEN NoEngine(Err(from_utf8(features_bin.val).err))
        ELSE IF fault THEN Outcome(TRUE, TRUE, Err(NoError), {}, {})
        ELSE LET options == [base_dir |-> dir.val,
                             supported_features |-> features_bin.val,
                             memory_cache_size |-> Size_mebi(cache_size),
                             instance_memory_limit |-> Size_mebi(instance_memory_limit)]
                 cache == Cache_new(options.base_dir)
             IN  IF cache.ok
                 THEN Outcome(FALSE, TRUE, Ok(PtrValue(NewPtr)), {}, {})
                 ELSE Outcome(FALSE, TRUE, Err(cache.err), {}, {})

\* Faulty variant: the Ok arm forgets clear_error().
init_cache_match_noclear(r, err) ==
    IF r.ok
    THEN Finish(PtrValue(r.val.ptr), last_error, err)
    ELSE LET e == set_error(r.err, err) IN Finish(PtrValue(NULL), e.slot, e.err)

\* Faulty variant: the Err arm forgets set_error().
init_cache_match_unset(r, err) ==
    IF r.ok
    THEN Finish(PtrValue(r.val.ptr), clear_error, err)
    ELSE Finish(PtrValue(NULL), last_error, err)

\* match r { Ok(t) => .., Err(e) => .. } of init_cache
init_cache_match(r, err) ==
    IF r.ok
    THEN Finish(PtrValue(r.val.ptr), clear_error, err)
    ELSE LET e == set_error(r.err, err) IN Finish(PtrValue(NULL), e.slot, e.err)

(***************************************************************************)
(* save_wasm, load_wasm, pin, unpin, analyze_code                          *)
(***************************************************************************)
\* Faulty variant: the checksum is computed but the module never handed to the
\* engine.
do_save_wasm_unsaved(cache, wasm, fault) ==
    LET bytes == Buffer_read(wasm)
    IN  IF ~bytes.some THEN Returned(cache, Err(Error_empty_arg(WASM_ARG)))
        ELSE IF fault THEN Panicked(cache)
        ELSE IF IsWasm(bytes.val)
             THEN Returned(cache, Ok(BufValue(Checksum_generate(bytes.val))))
             ELSE Called(Cache_save_wasm(wasm_store[cache], pinned[cache], bytes.val))

\* In each do_* function `fault` makes the engine method panic on entry.
do_save_wasm(cache, wasm, fault) ==
    LET bytes == Buffer_read(wasm)
    IN  IF ~bytes.some THEN Returned(cache, Err(Error_empty_arg(WASM_ARG)))
        ELSE IF fault THEN Panicked(cache)
        ELSE Called(Cache_save_wasm(wasm_store[cache], pinned[cache], bytes.val))

\* The caller's module buffer after do_save_wasm: wasm.read().
save_wasm_input(wasm) == Buffer_borrowed(wasm)

save_wasm_result(cache, wasm, fault) ==
    IF to_cache(cache).some
    THEN catch_unwind(do_save_wasm(to_cache(cache).val, wasm, fault))
    ELSE NoEngine(Err(Error_empty_arg(CACHE_ARG)))

\* Faulty variant: the bytes go to the engine without Checksum::try_from.
do_load_wasm_unparsed(cache, checksum, fault) ==
    LET bytes == Buffer_read(checksum)
    IN  IF ~bytes.some THEN Returned(cache, Err(Error_empty_arg(CHECKSUM_ARG)))
        ELSE IF fault THEN Panicked(cache)
        ELSE Called(Cache_load_wasm(wasm_store[cache], pinned[cache], bytes.val))

do_load_wasm(cache, checksum, fault) ==
    LET bytes == Buffer_read(checksum)
        parsed == Checksum_try_from(bytes.val)
    IN  IF ~bytes.some THEN Returned(cache, Err(Error_empty_arg(CHECKSUM_ARG)))
        ELSE IF ~parsed.ok THEN Returned(cache, Err(parsed.err))
        ELSE IF fault THEN Panicked(cache)
        ELSE Called(Cache_load_wasm(wasm_store[cache], pinned[cache], parsed.val.buf))

\* Faulty variant: do_load_wasm takes the bytes with checksum.consume().
load_wasm_input_consumed(checksum) == Buffer_consumed(checksum)

\* The caller's checksum buffer after do_load_wasm: checksum.read().
load_wasm_input(checksum) == Buffer_borrowed(checksum)

load_wasm_result(cache, checksum, fault) ==
    IF to_cache(cache).some
    THEN catch_unwind(do_load_wasm(to_cache(cache).val, checksum, fault))
    ELSE NoEngine(Err(Error_empty_arg(CACHE_ARG)))

\* Faulty variant: do_pin calls cache.unpin.
do_pin_unpins(cache, checksum, fault) ==
    LET bytes == Buffer_read(checksum)
        parsed == Checksum_try_from(bytes.val)
    IN  IF ~bytes.some THEN Returned(cache, Err(Error_empty_arg(CHECKSUM_ARG)))
        ELSE IF ~parsed.ok THEN Returned(cache, Err(parsed.err))
        ELSE IF fault THEN Panicked(cache)
        ELSE Called(Cache_unpin(wasm_store[cache], pinned[cache], parsed.val.buf))

do_pin(cache, checksum, fault) ==
    LET bytes == Buffer_read(checksum)
        parsed == Checksum_try_from(bytes.val)
    IN  IF ~bytes.some THEN Returned(cache, Err(Error_empty_arg(CHECKSUM_ARG)))
        ELSE IF ~parsed.ok THEN Returned(cache, Err(parsed.err))
        ELSE IF fault THEN Panicked(cache)
        ELSE Called(Cache_pin(wasm_store[cache], pinned[cache], parsed.val.buf))

\* Faulty variant: a null cache pointer is taken for nothing to do.
pin_result_null_ok(cache, checksum, fault) ==
    IF to_cache(cache).some
    THEN catch_unwind(do_pin(to_cache(cache).val, checksum, fault))
    ELSE NoEngine(Ok(NoValue))

\* The caller's checksum buffer after do_pin: checksum.read().
pin_input(checksum) == Buffer_borrowed(checksum)

pin_result(cache, checksum, fault) ==
    IF to_cache(cache).some
    THEN catch_unwind(do_pin(to_cache(cache).val, checksum, fault))
    ELSE NoEngine(Err(Error_empty_arg(CACHE_ARG)))

\* Faulty variant: do_unpin looks the module up first and fails when it is missing.
do_unpin_checked(cache, checksum, fault) ==
    LET bytes == Buffer_read(checksum)
        parsed == Checksum_try_from(bytes.val)
        found == Cache_load_wasm(wasm_store[cache], pinned[cache], parsed.val.buf)
    IN  IF ~bytes.some THEN Returned(cache, Err(Error_empty_arg(CHECKSUM_ARG)))
        ELSE IF ~parsed.ok THEN Returned(cache, Err(parsed.err))
        ELSE IF fault THEN Panicked(cache)
        ELSE IF ~found.r.ok THEN Called(found)
        ELSE Called(Cache_unpin(wasm_store[cache], pinned[cache], parsed.val.buf))

\* Faulty variant: do_unpin calls cache.pin.
do_unpin_pins(cache, checksum, fault) ==
    LET bytes == Buffer_read(checksum)
        parsed == Checksum_try_from(bytes.val)
    IN  IF ~bytes.some THEN Returned(cache, Err(Error_empty_arg(CHECKSUM_ARG)))
        ELSE IF ~parsed.ok THEN Returned(cache, Err(parsed.err))
        ELSE IF fault THEN Panicked(cache)
        ELSE Called(Cache_pin(wasm_store[cache], pinned[cache], parsed.val.buf))

do_unpin(cache, checksum, fault) ==
    LET bytes == Buffer_read(checksum)
        parsed == Checksum_try_from(bytes.val)
    IN  IF ~bytes.some THEN Returned(cache, Err(Error_empty_arg(CHECKSUM_ARG)))
        ELSE IF ~parsed.ok THEN Returned(cache, Err(parsed.err))
        ELSE IF fault THEN Panicked(cache)
        ELSE Called(Cache_unpin(wasm_store[cache], pinned[cache], parsed.val.buf))

\* The caller's checksum buffer after do_unpin: checksum.read().
unpin_input(checksum) == Buffer_borrowed(checksum)

unpin_result(cache, checksum, fault) ==
    IF to_cache(cache).some
    THEN catch_unwind(do_unpin(to_cache(cache).val, checksum, fault))
    ELSE NoEngine(Err(Error_empty_arg(CACHE_ARG)))

\* AnalysisReport::default()
AnalysisReport_default == ReportValue(FALSE)

\* Faulty variant: the conversion drops the flag.
AnalysisReport_from_default(report) == ReportValue(FALSE)

\* From<cosmwasm_vm::AnalysisReport> for AnalysisReport
AnalysisReport_from(report) == ReportValue(report.report)

do_analyze_code(cache, checksum, fault) ==
    LET bytes == Buffer_read(checksum)
        parsed == Checksum_try_from(bytes.val)
        report == Cache_analyze(wasm_store[cache], pinned[cache], parsed.val.buf)
    IN  IF ~bytes.some THEN Returned(cache, Err(Error_empty_arg(CHECKSUM_ARG)))
        ELSE IF ~parsed.ok THEN Returned(cache, Err(parsed.err))
        ELSE IF fault THEN Panicked(cache)
        ELSE IF report.r.ok
             THEN Called(EngineOut(Ok(AnalysisReport_from(report.r.val)),
                                   report.store, report.pins))
             ELSE Called(report)

\* The caller's checksum buffer after do_analyze_code: checksum.read().
analyze_code_input(checksum) == Buffer_borrowed(checksum)

analyze_code_result(cache, checksum, fault) ==
    IF to_cache(cache).some
    THEN catch_unwind(do_analyze_code(to_cache(cache).val, checksum, fault))
    ELSE NoEngine(Err(Error_empty_arg(CACHE_ARG)))

\* Faulty variant: the Err arm forgets set_error().
analyze_code_match_silent(r, err) ==
    IF r.ok
    THEN Finish(ReportValue(r.val.report), clear_error, err)
    ELSE Finish(AnalysisReport_default, clear_error, err)

\* Faulty variant: the Ok arm writes a message into out_error.
analyze_code_match_writes(r, err) ==
    IF r.ok
    THEN Finish(ReportValue(r.val.report), clear_error,
                IF err.present THEN ErrParam(ErrorMessage(NoError)) ELSE err)
    ELSE LET e == set_error(r.err, err) IN Finish(AnalysisReport_default, e.slot, e.err)

\* match r { Ok(value) => .., Err(error) => .. } of analyze_code
analyze_code_match(r, err) ==
    IF r.ok
    THEN Finish(ReportValue(r.val.report), clear_error, err)
    ELSE LET e == set_error(r.err, err) IN Finish(AnalysisReport_default, e.slot, e.err)

(***************************************************************************)
(* release_cache                                                           *)
(***************************************************************************)
\* Faulty variant: no null check before Box::from_raw.
release_cache_out_unchecked(cache, fault) ==
    [freed |-> TRUE, unwound |-> fault]

\* Faulty variant: the Box is never rebuilt, so nothing is freed.
release_cache_out_leak(cache, fault) ==
    [freed |-> FALSE, unwound |-> FALSE]

\* `fault`: dropping the engine panics.  Nothing catches it.
release_cache_out(cache, fault) ==
    [freed |-> cache # NULL, unwound |-> cache # NULL /\ fault]

(***************************************************************************)
(* The calls                                                               *)
(*                                                                         *)
(* In every call `fault` says whether the code panics where it can; a call *)
(* that never reaches such a place is made with fault = FALSE only.        *)
(***************************************************************************)
Live == {h \in Handle : handles[h] = "live"}

\* The pointers a caller may pass: null, or one init_cache returned and
\* release_cache has not yet freed.
Ptrs == {NULL} \cup Live

\* Whether the engine behind `cache` stores / pins the module `bytes` names.
IsStored(cache, bytes) == cache # NULL /\ Stored(wasm_store[cache], bytes) # {}
IsPinned(cache, bytes) == cache # NULL /\ bytes \in pinned[cache]

NoCall ==
    [op |-> "none", cache |-> NULL, arg |-> NilBuf, arg2 |-> NilBuf,
     err_in |-> NoErrParam, err_out |-> NoErrParam,
     ok |-> TRUE, err |-> NoError, ret |-> NoValue,
     fault |-> FALSE, engine |-> FALSE, unwound |-> FALSE,
     pre_stored |-> FALSE, pre_pinned |-> FALSE]

\* The record of a call: arguments, the inner Result, what the caller got.
Call(op, cache, arg, arg2, err, o, f) ==
    [op |-> op, cache |-> cache, arg |-> arg, arg2 |-> arg2,
     err_in |-> err, err_out |-> f.err,
     ok |-> o.r.ok, err |-> o.r.err, ret |-> f.ret,
     fault |-> o.panic, engine |-> o.engine, unwound |-> FALSE,
     pre_stored |-> IsStored(cache, arg.bytes),
     pre_pinned |-> IsPinned(cache, arg.bytes)]

\* Faulty variant: every pointer refers to one and the same engine.
Engine_shared(cache, o) ==
    /\ wasm_store' = IF cache = NULL THEN wasm_store
                     ELSE [h \in Handle |-> IF handles[h] = "live" THEN o.store
                                            ELSE wasm_store[h]]
    /\ pinned' = IF cache = NULL THEN pinned
                 ELSE [h \in Handle |-> IF handles[h] = "live" THEN o.pins
                                        ELSE pinned[h]]

\* The engine state a call on `cache` leaves.
Engine(cache, o) ==
    /\ wasm_store' = IF cache = NULL THEN wasm_store
                     ELSE [wasm_store EXCEPT ![cache] = o.store]
    /\ pinned' = IF cache = NULL THEN pinned
                 ELSE [pinned EXCEPT ![cache] = o.pins]

\* The caller is between two calls.
Idle == ~crashed /\ last.op = "none"

Init ==
    /\ handles = [h \in Handle |-> "absent"]
    /\ wasm_store = [h \in Handle |-> {}]
    /\ pinned = [h \in Handle |-> {}]
    /\ saved = [h \in Handle |-> {}]
    /\ last_error = <<>>
    /\ last = NoCall
    /\ crashed = FALSE

init_cache ==
    /\ Idle
    /\ \E data_dir \in DirArgs, supported_features \in FeatureArgs,
          err \in ErrArgs, fault \in BOOLEAN :
        LET o == catch_unwind(do_init_cache(data_dir, supported_features, 512, 32, fault))
            f == init_cache_match(o.r, err)
        IN  /\ fault => o.panic
            /\ o.r.ok => o.r.val.ptr # NULL
            /\ handles' = IF o.r.ok THEN [handles EXCEPT ![o.r.val.ptr] = "live"]
                          ELSE handles
            /\ last_error' = f.slot
            /\ last' = Call("init", NULL, data_dir, supported_features, err, o, f)
            /\ UNCHANGED <<wasm_store, pinned, saved, crashed>>

save_wasm ==
    /\ Idle
    /\ \E cache \in Ptrs, wasm \in WasmArgs, err \in ErrArgs, fault \in BOOLEAN :
        LET o == save_wasm_result(cache, wasm, fault)
            f == handle_c_error_binary(o.r, err)
        IN  /\ fault => o.panic
            /\ Engine(cache, o)
            /\ last_error' = f.slot
            /\ last' = Call("save", cache, wasm, NilBuf, err, o, f)
            /\ saved' = IF cache # NULL /\ f.ret.buf # <<>>
                         THEN [saved EXCEPT ![cache] = @ \cup {<<f.ret.buf, wasm.bytes>>}]
                         ELSE saved
            /\ UNCHANGED <<handles, crashed>>

load_wasm ==
    /\ Idle
    /\ \E cache \in Ptrs, checksum \in ChecksumArgs, err \in ErrArgs, fault \in BOOLEAN :
        LET o == load_wasm_result(cache, checksum, fault)
            f == handle_c_error_binary(o.r, err)
        IN  /\ fault => o.panic
            /\ Engine(cache, o)
            /\ last_error' = f.slot
            /\ last' = Call("load", cache, checksum, NilBuf, err, o, f)
            /\ UNCHANGED <<handles, saved, crashed>>

pin ==
    /\ Idle
    /\ \E cache \in Ptrs, checksum \in ChecksumArgs, err \in ErrArgs, fault \in BOOLEAN :
        LET o == pin_result(cache, checksum, fault)
            f == handle_c_error_default(o.r, err)
        IN  /\ fault => o.panic
            /\ Engine(cache, o)
            /\ last_error' = f.slot
            /\ last' = Call("pin", cache, checksum, NilBuf, err, o, f)
            /\ UNCHANGED <<handles, saved, crashed>>

unpin ==
    /\ Idle
    /\ \E cache \in Ptrs, checksum \in ChecksumArgs, err \in ErrArgs, fault \in BOOLEAN :
        LET o == unpin_result(cache, checksum, fault)
            f == handle_c_error_default(o.r, err)
        IN  /\ fault => o.panic
            /\ Engine(cache, o)
            /\ last_error' = f.slot
            /\ last' = Call("unpin", cache, checksum, NilBuf, err, o, f)
            /\ UNCHANGED <<handles, saved, crashed>>

analyze_code ==
    /\ Idle
    /\ \E cache \in Ptrs, checksum \in ChecksumArgs, err \in ErrArgs, fault \in BOOLEAN :
        LET o == analyze_code_result(cache, checksum, fault)
            f == analyze_code_match(o.r, err)
        IN  /\ fault => o.panic
            /\ Engine(cache, o)
            /\ last_error' = f.slot
            /\ last' = Call("analyze", cache, checksum, NilBuf, err, o, f)
            /\ UNCHANGED <<handles, saved, crashed>>

\* Box::from_raw and the drop of the engine; a panic of the drop leaves the
\* extern "C" function by unwinding.
release_cache ==
    /\ Idle
    /\ \E cache \in Ptrs, fault \in BOOLEAN :
        LET o == release_cache_out(cache, fault)
        IN  /\ fault => o.unwound
            /\ handles' = IF o.freed THEN [handles EXCEPT ![cache] = "released"]
                          ELSE handles
            /\ wasm_store' = IF o.freed THEN [wasm_store EXCEPT ![cache] = {}]
                             ELSE wasm_store
            /\ pinned' = IF o.freed THEN [pinned EXCEPT ![cache] = {}] ELSE pinned
            /\ saved' = IF o.freed THEN [saved EXCEPT ![cache] = {}] ELSE saved
            /\ crashed' = o.unwound
            /\ last' = [NoCall EXCEPT !.op = "release", !.cache = cache,
                                      !.fault = o.unwound, !.unwound = o.unwound]
            /\ UNCHANGED last_error

\* The caller reads the last-error slot, which empties it.
consume_error ==
    /\ Idle
    /\ last' = [NoCall EXCEPT !.op = "consume", !.ret = BufValue(last_error)]
    /\ last_error' = <<>>
    /\ UNCHANGED <<handles, wasm_store, pinned, saved, crashed>>

\* The caller takes the returned value and goes on.
Return ==
    /\ ~crashed
    /\ last.op # "none"
    /\ last' = NoCall
    /\ UNCHANGED <<handles, wasm_store, pinned, saved, last_error, crashed>>

Next ==
    \/ init_cache
    \/ save_wasm
    \/ load_wasm
    \/ pin
    \/ unpin
    \/ analyze_code
    \/ release_cache
    \/ consume_error
    \/ Return

Spec == Init /\ [][Next]_vars

TypeOK ==
    /\ handles \in [Handle -> {"absent", "live", "released"}]
    /\ \A h \in Handle : wasm_store[h] \subseteq Modules
    /\ \A h \in Handle :
          pinned[h] \subseteq {Checksum_generate(w) : w \in wasm_store[h]}
    /\ \A h \in Handle :
          saved[h] = {<<Checksum_generate(w), w>> : w \in wasm_store[h]}
    /\ crashed \in BOOLEAN

(***************************************************************************)
(* Several caller threads                                                  *)
(*                                                                         *)
(* Every exported function runs to completion on the thread that calls it; *)
(* the engine state behind a pointer and the last-error slot are shared by *)
(* all threads.  One failing call at a time is followed from its return to *)
(* the read of the last-error slot by its thread; `last` then holds that   *)
(* call, its thread and what the other threads have done since.            *)
(***************************************************************************)
NumThreads == 2
Thread == 1..NumThreads

\* What the threads pass.
ThreadDirArgs == {NilBuf, Buf(TEMP_DIR)}
ThreadWasmArgs == {NilBuf, Buf(HACKATOM)}
ThreadChecksumArgs == {Buf(Checksum_generate(HACKATOM))}

\* Nothing has happened since the followed call returned.  ok, fail: a call
\* of another thread succeeded, failed; read: another thread read the
\* last-error slot; off: another thread did something that is not a call
\* on a live handle other than the one of the followed call.
Quiet == [ok |-> FALSE, fail |-> FALSE, read |-> FALSE, off |-> FALSE]

\* No call is followed.
NotFollowed ==
    [call |-> NoCall, thread |-> 0, left |-> [store |-> {}, pins |-> {}],
     between |-> Quiet, read |-> FALSE, got |-> <<>>]

\* `last` once the call `c` of thread `t`, which left the engine as in `o`,
\* has returned: the call becomes the followed one, or it is noted as a call
\* made after the followed one returned.
Observe(t, c, o, follow) ==
    IF last.call.op = "none"
    THEN IF follow
         THEN [call |-> c, thread |-> t, left |-> [store |-> o.store, pins |-> o.pins],
               between |-> Quiet, read |-> FALSE, got |-> <<>>]
         ELSE NotFollowed
    ELSE [last EXCEPT !.between =
             [ok |-> @.ok \/ c.ok, fail |-> @.fail \/ ~c.ok, read |-> @.read,
              off |-> @.off \/ c.cache \in {NULL, last.call.cache}]]

\* Thread t may make a call: the thread of the followed call makes none
\* before it has read the last-error slot.
CanCall(t) ==
    /\ ~crashed
    /\ ~last.read
    /\ last.call.op # "none" => t # last.thread

ThreadInit ==
    /\ handles = [h \in Handle |-> "absent"]
    /\ wasm_store = [h \in Handle |-> {}]
    /\ pinned = [h \in Handle |-> {}]
    /\ saved = [h \in Handle |-> {}]
    /\ last_error = <<>>
    /\ last = NotFollowed
    /\ crashed = FALSE

thread_init_cache(t) ==
    /\ CanCall(t)
    /\ \E data_dir \in ThreadDirArgs, follow \in BOOLEAN :
        LET o == catch_unwind(do_init_cache(data_dir, Buf(STAKING), 512, 32, FALSE))
            f == init_cache_match(o.r, NoErrParam)
        IN  /\ follow => last.call.op = "none" /\ ~o.r.ok
            /\ o.r.ok => o.r.val.ptr # NULL
            /\ handles' = IF o.r.ok THEN [handles EXCEPT ![o.r.val.ptr] = "live"]
                          ELSE handles
            /\ last_error' = f.slot
            /\ last' = Observe(t, Call("init", NULL, data_dir, Buf(STAKING), NoErrParam, o, f),
                               o, follow)
            /\ UNCHANGED <<wasm_store, pinned, saved, crashed>>

thread_save_wasm(t) ==
    /\ CanCall(t)
    /\ \E cache \in Ptrs, wasm \in ThreadWasmArgs, follow \in BOOLEAN :
        LET o == save_wasm_result(cache, wasm, FALSE)
            f == handle_c_error_binary(o.r, NoErrParam)
        IN  /\ follow => last.call.op = "none" /\ ~o.r.ok
            /\ Engine(cache, o)
            /\ last_error' = f.slot
            /\ last' = Observe(t, Call("save", cache, wasm, NilBuf, NoErrParam, o, f),
                               o, follow)
            /\ saved' = IF cache # NULL /\ f.ret.buf # <<>>
                         THEN [saved EXCEPT ![cache] = @ \cup {<<f.ret.buf, wasm.bytes>>}]
                         ELSE saved
            /\ UNCHANGED <<handles, crashed>>

thread_load_wasm(t) ==
    /\ CanCall(t)
    /\ \E cache \in Ptrs, checksum \in ThreadChecksumArgs, follow \in BOOLEAN :
        LET o == load_wasm_result(cache, checksum, FALSE)
            f == handle_c_error_binary(o.r, NoErrParam)
        IN  /\ follow => last.call.op = "none" /\ ~o.r.ok
            /\ Engine(cache, o)
            /\ last_error' = f.slot
            /\ last' = Observe(t, Call("load", cache, checksum, NilBuf, NoErrParam, o, f),
                               o, follow)
            /\ UNCHANGED <<handles, saved, crashed>>

thread_pin(t) ==
    /\ CanCall(t)
    /\ \E cache \in Ptrs, checksum \in ThreadChecksumArgs, follow \in BOOLEAN :
        LET o == pin_result(cache, checksum, FALSE)
            f == handle_c_error_default(o.r, NoErrParam)
        IN  /\ follow => last.call.op = "none" /\ ~o.r.ok
            /\ Engine(cache, o)
            /\ last_error' = f.slot
            /\ last' = Observe(t, Call("pin", cache, checksum, NilBuf, NoErrParam, o, f),
                               o, follow)
            /\ UNCHANGED <<handles, saved, crashed>>

thread_unpin(t) ==
    /\ CanCall(t)
    /\ \E cache \in Ptrs, checksum \in ThreadChecksumArgs, follow \in BOOLEAN :
        LET o == unpin_result(cache, checksum, FALSE)
            f == handle_c_error_default(o.r, NoErrParam)
        IN  /\ follow => last.call.op = "none" /\ ~o.r.ok
            /\ Engine(cache, o)
            /\ last_error' = f.slot
            /\ last' = Observe(t, Call("unpin", cache, checksum, NilBuf, NoErrParam, o, f),
                               o, follow)
            /\ UNCHANGED <<handles, saved, crashed>>

thread_analyze_code(t) ==
    /\ CanCall(t)
    /\ \E cache \in Ptrs, checksum \in ThreadChecksumArgs, follow \in BOOLEAN :
        LET o == analyze_code_result(cache, checksum, FALSE)
            f == analyze_code_match(o.r, NoErrParam)
        IN  /\ follow => last.call.op = "none" /\ ~o.r.ok
            /\ Engine(cache, o)
            /\ last_error' = f.slot
            /\ last' = Observe(t, Call("analyze", cache, checksum, NilBuf, NoErrParam, o, f),
                               o, follow)
            /\ UNCHANGED <<handles, saved, crashed>>

\* release_cache does not touch the last-error slot.
thread_release_cache(t) ==
    /\ CanCall(t)
    /\ \E cache \in Ptrs, fault \in BOOLEAN :
        LET o == release_cache_out(cache, fault)
        IN  /\ fault => o.unwound
            /\ handles' = IF o.freed THEN [handles EXCEPT ![cache] = "released"]
                          ELSE handles
            /\ wasm_store' = IF o.freed THEN [wasm_store EXCEPT ![cache] = {}]
                             ELSE wasm_store
            /\ pinned' = IF o.freed THEN [pinned EXCEPT ![cache] = {}] ELSE pinned
            /\ saved' = IF o.freed THEN [saved EXCEPT ![cache] = {}] ELSE saved
            /\ crashed' = o.unwound
            /\ last' = IF last.call.op = "none" THEN last
                       ELSE [last EXCEPT !.between.off =
                                @ \/ cache \in {NULL, last.call.cache}]
            /\ UNCHANGED last_error

\* A thread reads the last-error slot: the thread of the followed call gets
\* what the slot holds now; a read by another thread is noted.
thread_consume_error(t) ==
    /\ ~crashed
    /\ ~last.read
    /\ last_error' = <<>>
    /\ last' = IF last.call.op = "none" THEN last
               ELSE IF t = last.thread
                    THEN [last EXCEPT !.read = TRUE, !.got = last_error]
                    ELSE [last EXCEPT !.between.read = TRUE, !.between.off = TRUE]
    /\ UNCHANGED <<handles, wasm_store, pinned, saved, crashed>>

\* The thread of the followed call goes on with what it has read.
thread_Return(t) ==
    /\ ~crashed
    /\ last.read /\ t = last.thread
    /\ last' = NotFollowed
    /\ UNCHANGED <<handles, wasm_store, pinned, saved, last_error, crashed>>

ThreadNext ==
    \E t \in Thread :
        \/ thread_init_cache(t)
        \/ thread_save_wasm(t)
        \/ thread_load_wasm(t)
        \/ thread_pin(t)
        \/ thread_unpin(t)
        \/ thread_analyze_code(t)
        \/ thread_release_cache(t)
        \/ thread_consume_error(t)
        \/ thread_Return(t)

ThreadSpec == ThreadInit /\ [][ThreadNext]_vars

(***************************************************************************)
(* The caller's buffers                                                    *)
(*                                                                         *)
(* One caller holds a buffer with a module and, once a save_wasm has       *)
(* returned one, a buffer with its checksum, and passes these same buffers *)
(* to every call.  `last` holds the call that has just returned, the two   *)
(* buffers as the calls have left them, and the functions the checksum     *)
(* buffer has been passed to.                                              *)
(***************************************************************************)
\* What a callee reads through a buffer: the bytes, or for a dangling
\* pointer anything at all.
Seen(b) == IF b = Dangling THEN ChecksumArgs \ {NilBuf} ELSE {b}

BufferIdle == ~crashed

BufferInit ==
    /\ handles = [h \in Handle |-> "absent"]
    /\ wasm_store = [h \in Handle |-> {}]
    /\ pinned = [h \in Handle |-> {}]
    /\ saved = [h \in Handle |-> {}]
    /\ last_error = <<>>
    /\ \E w \in Modules :
          last = [call |-> NoCall, wasm |-> Buf(w), checksum |-> NilBuf, used |-> {}]
    /\ crashed = FALSE

buffer_init_cache ==
    /\ BufferIdle
    /\ LET o == catch_unwind(do_init_cache(Buf(TEMP_DIR), Buf(STAKING), 512, 32, FALSE))
           f == init_cache_match(o.r, NoErrParam)
       IN  /\ o.r.ok => o.r.val.ptr # NULL
           /\ handles' = IF o.r.ok THEN [handles EXCEPT ![o.r.val.ptr] = "live"]
                         ELSE handles
           /\ last_error' = f.slot
           /\ last' = [last EXCEPT !.call =
                          Call("init", NULL, Buf(TEMP_DIR), Buf(STAKING), NoErrParam, o, f)]
           /\ UNCHANGED <<wasm_store, pinned, saved, crashed>>

\* The caller keeps the first checksum a save_wasm returns.
buffer_save_wasm ==
    /\ BufferIdle
    /\ \E cache \in Ptrs, wasm \in Seen(last.wasm), fault \in BOOLEAN :
        LET o == save_wasm_result(cache, wasm, fault)
            f == handle_c_error_binary(o.r, NoErrParam)
        IN  /\ fault => o.panic
            /\ Engine(cache, o)
            /\ last_error' = f.slot
            /\ last' = [call |-> Call("save", cache, wasm, NilBuf, NoErrParam, o, f),
                        wasm |-> IF to_cache(cache).some THEN save_wasm_input(last.wasm)
                                 ELSE last.wasm,
                        checksum |-> IF last.checksum.is_nil /\ o.r.ok
                                     THEN Buf(f.ret.buf) ELSE last.checksum,
                        used |-> last.used]
            /\ saved' = IF cache # NULL /\ f.ret.buf # <<>>
                         THEN [saved EXCEPT ![cache] = @ \cup {<<f.ret.buf, wasm.bytes>>}]
                         ELSE saved
            /\ UNCHANGED <<handles, crashed>>

buffer_load_wasm ==
    /\ BufferIdle
    /\ ~last.checksum.is_nil
    /\ \E cache \in Ptrs, checksum \in Seen(last.checksum), fault \in BOOLEAN :
        LET o == load_wasm_result(cache, checksum, fault)
            f == handle_c_error_binary(o.r, NoErrParam)
        IN  /\ fault => o.panic
            /\ Engine(cache, o)
            /\ last_error' = f.slot
            /\ last' = [call |-> Call("load", cache, checksum, NilBuf, NoErrParam, o, f),
                        wasm |-> last.wasm,
                        checksum |-> IF to_cache(cache).some
                                     THEN load_wasm_input(last.checksum)
                                     ELSE last.checksum,
                        used |-> last.used \cup {"load"}]
            /\ UNCHANGED <<handles, saved, crashed>>

buffer_pin ==
    /\ BufferIdle
    /\ ~last.checksum.is_nil
    /\ \E cache \in Ptrs, checksum \in Seen(last.checksum), fault \in BOOLEAN :
        LET o == pin_result(cache, checksum, fault)
            f == handle_c_error_default(o.r, NoErrParam)
        IN  /\ fault => o.panic
            /\ Engine(cache, o)
            /\ last_error' = f.slot
            /\ last' = [call |-> Call("pin", cache, checksum, NilBuf, NoErrParam, o, f),
                        wasm |-> last.wasm,
                        checksum |-> IF to_cache(cache).some
                                     THEN pin_input(last.checksum)
                                     ELSE last.checksum,
                        used |-> last.used \cup {"pin"}]
            /\ UNCHANGED <<handles, saved, crashed>>

buffer_unpin ==
    /\ BufferIdle
    /\ ~last.checksum.is_nil
    /\ \E cache \in Ptrs, checksum \in Seen(last.checksum), fault \in BOOLEAN :
        LET o == unpin_result(cache, checksum, fault)
            f == handle_c_error_default(o.r, NoErrParam)
        IN  /\ fault => o.panic
            /\ Engine(cache, o)
            /\ last_error' = f.slot
            /\ last' = [call |-> Call("unpin", cache, checksum, NilBuf, NoErrParam, o, f),
                        wasm |-> last.wasm,
                        checksum |-> IF to_cache(cache).some
                                     THEN unpin_input(last.checksum)
                                     ELSE last.checksum,
                        used |-> last.used \cup {"unpin"}]
            /\ UNCHANGED <<handles, saved, crashed>>

buffer_analyze_code ==
    /\ BufferIdle
    /\ ~last.checksum.is_nil
    /\ \E cache \in Ptrs, checksum \in Seen(last.checksum), fault \in BOOLEAN :
        LET o == analyze_code_result(cache, checksum, fault)
            f == analyze_code_match(o.r, NoErrParam)
        IN  /\ fault => o.panic
            /\ Engine(cache, o)
            /\ last_error' = f.slot
            /\ last' = [call |-> Call("analyze", cache, checksum, NilBuf, NoErrParam, o, f),
                        wasm |-> last.wasm,
                        checksum |-> IF to_cache(cache).some
                                     THEN analyze_code_input(last.checksum)
                                     ELSE last.checksum,
                        used |-> last.used \cup {"analyze"}]
            /\ UNCHANGED <<handles, saved, crashed>>

buffer_release_cache ==
    /\ BufferIdle
    /\ \E cache \in Ptrs, fault \in BOOLEAN :
        LET o == release_cache_out(cache, fault)
        IN  /\ fault => o.unwound
            /\ handles' = IF o.freed THEN [handles EXCEPT ![cache] = "released"]
                          ELSE handles
            /\ wasm_store' = IF o.freed THEN [wasm_store EXCEPT ![cache] = {}]
                             ELSE wasm_store
            /\ pinned' = IF o.freed THEN [pinned EXCEPT ![cache] = {}] ELSE pinned
            /\ saved' = IF o.freed THEN [saved EXCEPT ![cache] = {}] ELSE saved
            /\ crashed' = o.unwound
            /\ last' = [last EXCEPT !.call =
                           [NoCall EXCEPT !.op = "release", !.cache = cache,
                                          !.fault = o.unwound, !.unwound = o.unwound]]
            /\ UNCHANGED last_error

BufferNext ==
    \/ buffer_init_cache
    \/ buffer_save_wasm
    \/ buffer_load_wasm
    \/ buffer_pin
    \/ buffer_unpin
    \/ buffer_analyze_code
    \/ buffer_release_cache

BufferSpec == BufferInit /\ [][BufferNext]_vars

(***************************************************************************)
(* Properties                                                              *)
(***************************************************************************)
ChecksumOps == {"load", "pin", "unpin", "analyze"}
FacadeOps == {"save"} \cup ChecksumOps
FallibleOps == {"init"} \cup FacadeOps

\* The returned call was made on a live handle with a checksum of the right
\* length, and nothing panicked inside it.
OnLive(c) == c.cache # NULL /\ ~c.fault
WellFormed(c) == ~c.arg.is_nil /\ Len(c.arg.bytes) = ChecksumLen

\* The checksums among the saves `sv` of a handle.
SavedChecksums(sv) == {p[1] : p \in sv}

\* C1: on a live handle, save_wasm of a valid non-empty module succeeds and
\* returns its checksum, and load_wasm of a checksum that a save_wasm on the
\* same handle returned succeeds and returns exactly the bytes saved,
\* whatever calls were made in between (no panic inside the calls).
C1_SaveLoadRoundTrip ==
    /\ (last.op = "save" /\ OnLive(last) /\ ~last.arg.is_nil
            /\ Len(last.arg.bytes) > 0 /\ IsWasm(last.arg.bytes))
        => /\ last.ok
           /\ last.ret.buf = Checksum_generate(last.arg.bytes)
           /\ <<last.ret.buf, last.arg.bytes>> \in saved[last.cache]
    /\ (last.op = "load" /\ OnLive(last))
        => \A p \in saved[last.cache] :
              p[1] = last.arg.bytes => last.ok /\ last.ret.buf = p[2]

\* C1 witness: a module saved, then pinned, is loaded back.
C1_Witness ==
    /\ last.op = "load" /\ last.ok
    /\ last.ret.buf = IBC_REFLECT
    /\ pinned[last.cache] # {}
    /\ Cardinality(saved[last.cache]) = 2

\* C2: a panic raised inside any exposed operation, release included, never
\* leaves the operation by unwinding; the operation returns its failure
\* sentinel and the error channel holds the internal-panic message.
C2_PanicContained ==
    last.fault =>
        /\ ~last.unwound
        /\ ~crashed
        /\ ~last.ok /\ last.err = Error_panic
        /\ last.ret = NoValue
        /\ last_error = ErrorMessage(Error_panic)

\* C3: save, load, pin, unpin and analyze on a null handle fail with the
\* empty-argument error naming the cache, return the failure sentinel, never
\* reach the engine and leave every handle's stored and pinned modules as
\* they were, whatever the other arguments are.
C3_NullHandleRejected ==
    [][(last'.op \in FacadeOps /\ last'.cache = NULL) =>
          /\ ~last'.ok
          /\ last'.err = Error_empty_arg(CACHE_ARG)
          /\ last'.ret = NoValue
          /\ ~last'.engine /\ ~last'.fault
          /\ last_error' = ErrorMessage(Error_empty_arg(CACHE_ARG))
          /\ UNCHANGED <<handles, wasm_store, pinned, saved>>]_vars

\* C3 witness: analyze on a null handle with a stored and pinned checksum
\* of a live handle.
C3_Witness ==
    /\ last.op = "analyze" /\ last.cache = NULL
    /\ \E h \in Live : last.arg.bytes \in pinned[h]
    /\ ~last.ok

\* The failure sentinel: a null pointer, an empty buffer, the default report.
IsSentinel(c) == c.ret = NoValue

\* C4 as stated: with an out_error parameter, a failing call writes a
\* non-empty message and returns its sentinel, no call (init, save, load,
\* analyze) returns its sentinel without writing a message, and no call
\* writes a message while succeeding.
C4_SentinelIffError ==
    (last.op \in FallibleOps /\ last.err_in.present) =>
        /\ ~last.ok =>
              /\ last.err_out.bytes = ErrorMessage(last.err)
              /\ last.err_out.bytes # <<>>
              /\ IsSentinel(last)
        /\ last.ok => last.err_out = last.err_in
        /\ (last.op \in {"init", "save", "load", "analyze"} /\ IsSentinel(last))
              => ~last.ok /\ last.err_out.bytes = ErrorMessage(last.err)

\* C4 (amended): as above, but only init, save and load never return their
\* sentinel on success: the all-false report of analyze is also the report
\* of a module without IBC entry points.
C4_ErrorWrittenOnFailure ==
    (last.op \in FallibleOps /\ last.err_in.present) =>
        /\ ~last.ok =>
              /\ last.err_out.bytes = ErrorMessage(last.err)
              /\ last.err_out.bytes # <<>>
              /\ IsSentinel(last)
        /\ last.ok => last.err_out = last.err_in
        /\ (last.op \in {"init", "save", "load"} /\ IsSentinel(last))
              => ~last.ok /\ last.err_out.bytes = ErrorMessage(last.err)

\* C4 witness: a failing load overwrites an older message in out_error.
C4_Witness ==
    /\ last.op = "load" /\ last.cache # NULL
    /\ last.err_in = ErrParam(STALE)
    /\ last.err_out = ErrParam(ErrorMessage(Error_vm_err(NOT_FOUND)))
    /\ IsSentinel(last)

\* C5: every successful init/save/load/pin/unpin/analyze leaves the
\* last-error slot empty, every failing one leaves its own message in it,
\* and consume returns the held message and empties the slot.
C5_LastErrorSlot ==
    [][/\ last'.op \in FallibleOps =>
             /\ last'.ok => last_error' = <<>>
             /\ ~last'.ok => /\ last_error' = ErrorMessage(last'.err)
                             /\ last_error' # <<>>
       /\ last'.op = "consume" =>
             /\ last'.ret.buf = last_error
             /\ last_error' = <<>>]_vars

\* C5 witness: a successful call made while the slot held an older message.
C5_Witness ==
    /\ last.op = "analyze" /\ last.ok
    /\ last.err_in = ErrParam(STALE)
    /\ last_error = <<>>

\* Call c passed a well-formed checksum that no save_wasm on its handle
\* has returned, `sv` being the saves of each handle.
NeverSaved(c, sv) ==
    OnLive(c) /\ WellFormed(c) /\ c.arg.bytes \notin SavedChecksums(sv[c.cache])

\* C6 as stated: load, pin, unpin and analyze of a checksum never saved on
\* the handle fail with the not-found error; analyze returns the default
\* report.
C6_NeverSavedNotFound ==
    (last.op \in ChecksumOps /\ NeverSaved(last, saved)) =>
        /\ ~last.ok
        /\ last.err = Error_vm_err(NOT_FOUND)
        /\ last.ret = NoValue

\* C6 (amended): load, pin and analyze of a checksum never saved on the
\* handle fail with the not-found error, analyze returning the default
\* report; unpin of such a checksum succeeds and changes nothing.
C6_NeverSavedNotFoundButUnpin ==
    [][/\ (last'.op \in {"load", "pin", "analyze"} /\ NeverSaved(last', saved)) =>
             /\ ~last'.ok
             /\ last'.err = Error_vm_err(NOT_FOUND)
             /\ last'.ret = NoValue
             /\ last_error' = ErrorMessage(Error_vm_err(NOT_FOUND))
       /\ (last'.op = "unpin" /\ NeverSaved(last', saved)) =>
             /\ last'.ok
             /\ last_error' = <<>>
             /\ UNCHANGED <<wasm_store, pinned>>]_vars

\* C6 witness: unpin of a never-saved checksum succeeds while another
\* module is pinned on the handle.
C6_Witness ==
    /\ last.op = "unpin" /\ NeverSaved(last, saved)
    /\ last.ok
    /\ pinned[last.cache] # {}

\* C7: an init that fails (missing argument, undecodable text, a base
\* directory with a nul byte, a contained panic) returns the null pointer,
\* leaves a non-empty message in the error channel and allocates nothing:
\* the handles and their engines are as before the call.  init returns the
\* null pointer only when it fails.
C7_FailedInitLeavesNoHandle ==
    [][last'.op = "init" =>
          /\ (~last'.ok \/ last'.ret.ptr = NULL) =>
                /\ ~last'.ok
                /\ last'.ret.ptr = NULL
                /\ last_error' = ErrorMessage(last'.err)
                /\ last_error' # <<>>
                /\ last'.err_in.present => last'.err_out.bytes = ErrorMessage(last'.err)
                /\ UNCHANGED <<handles, wasm_store, pinned, saved>>
          /\ (~last'.arg.is_nil /\ \E i \in 1..Len(last'.arg.bytes) : last'.arg.bytes[i] = 0)
                => ~last'.ok
          /\ last'.fault => ~last'.ok /\ last'.err = Error_panic
          /\ last'.arg.is_nil => ~last'.ok /\ last'.err = Error_empty_arg(DATA_DIR_ARG)]_vars

\* C7 witness: init on "borken\0dir" fails in the engine's constructor while
\* another handle is live.
C7_Witness ==
    /\ last.op = "init" /\ last.arg = Buf(BORKEN_DIR)
    /\ ~last.ok /\ last.err.kind = "vm_err"
    /\ last.ret.ptr = NULL
    /\ last.err_out.bytes = ErrorMessage(last.err)
    /\ Live # {}

\* C8: pin of a checksum stored on a live handle succeeds with no error,
\* pinned already or not; afterwards the checksum is pinned, the stored
\* modules are as before, and a pin of an already pinned checksum leaves the
\* pinned set as it was.
C8_PinIdempotent ==
    [][(last'.op = "pin" /\ OnLive(last') /\ WellFormed(last') /\ last'.pre_stored) =>
          /\ last'.ok
          /\ last_error' = <<>>
          /\ last'.err_out = last'.err_in
          /\ pinned' = [pinned EXCEPT ![last'.cache] = @ \cup {last'.arg.bytes}]
          /\ last'.pre_pinned => pinned' = pinned
          /\ UNCHANGED <<wasm_store, saved, handles>>]_vars

\* C8 witness: a second pin of a pinned checksum has returned successfully.
C8_Witness ==
    /\ last.op = "pin" /\ last.ok
    /\ last.pre_pinned
    /\ last.arg.bytes \in pinned[last.cache]

\* C9: unpin of a well-formed checksum that is not pinned on a live handle
\* succeeds with no error and leaves the pinned set and the stored modules
\* unchanged.
C9_UnpinIdempotent ==
    [][(last'.op = "unpin" /\ OnLive(last') /\ WellFormed(last') /\ ~last'.pre_pinned) =>
          /\ last'.ok
          /\ last_error' = <<>>
          /\ last'.err_out = last'.err_in
          /\ UNCHANGED <<wasm_store, pinned, saved, handles>>]_vars

\* C9 witness: unpin of a stored checksum that is not pinned has returned
\* successfully while another checksum stays pinned.
C9_Witness ==
    /\ last.op = "unpin" /\ last.ok
    /\ last.pre_stored /\ ~last.pre_pinned
    /\ pinned[last.cache] # {}

\* C10: analyze of a checksum stored on a live handle succeeds with no error
\* and reports has_ibc_entry_points as the module saved under that checksum
\* has it; every failing analyze returns the all-false default report.
C10_AnalyzeReport ==
    last.op = "analyze" =>
        /\ (OnLive(last) /\ WellFormed(last)) =>
              \A p \in saved[last.cache] :
                  p[1] = last.arg.bytes =>
                      /\ last.ok
                      /\ last_error = <<>>
                      /\ last.ret = ReportValue(HasIbcEntryPoints(p[2]))
        /\ ~last.ok => last.ret = AnalysisReport_default /\ last_error # <<>>

\* C10 witness: analyze of IBC_REFLECT reports the flag on a handle that
\* also stores HACKATOM.
C10_Witness ==
    /\ last.op = "analyze" /\ last.ok
    /\ last.arg.bytes = Checksum_generate(IBC_REFLECT)
    /\ last.ret.report
    /\ Cardinality(saved[last.cache]) = 2

\* C11: release_cache on the null pointer does nothing: it returns without
\* panicking, frees no handle, and leaves every handle's lifecycle state,
\* every stored and pinned module and the last-error slot as they were.
C11_ReleaseNullNoOp ==
    [][(last'.op = "release" /\ last'.cache = NULL) =>
          /\ ~last'.unwound /\ ~last'.fault
          /\ ~crashed'
          /\ UNCHANGED <<handles, wasm_store, pinned, saved, last_error>>]_vars

\* C11 witness: release of the null pointer has returned while a live handle
\* stores and pins a module and the last-error slot holds a message.
C11_Witness ==
    /\ last.op = "release" /\ last.cache = NULL
    /\ ~crashed
    /\ \E h \in Live : wasm_store[h] # {} /\ pinned[h] # {}
    /\ last_error # <<>>

\* A checksum argument that is absent, empty or not of the checksum length.
Malformed(c) == c.arg.is_nil \/ Len(c.arg.bytes) # ChecksumLen

\* C12: load, pin, unpin and analyze on a live handle reject a checksum
\* that is not of the checksum length with the length error, and an absent
\* or zero-length one with the empty-argument error naming the checksum;
\* the call does not panic, does not reach the engine and leaves every
\* handle's stored and pinned modules as they were.
C12_MalformedChecksumRejected ==
    [][(last'.op \in ChecksumOps /\ last'.cache # NULL /\ Malformed(last')) =>
          /\ ~last'.ok
          /\ last'.err = IF last'.arg.is_nil \/ Len(last'.arg.bytes) = 0
                         THEN Error_empty_arg(CHECKSUM_ARG)
                         ELSE Error_vm_err("Checksum not of length 32")
          /\ last'.err # Error_panic /\ ~last'.fault
          /\ last_error' = ErrorMessage(last'.err)
          /\ ~last'.engine
          /\ UNCHANGED <<handles, wasm_store, pinned, saved>>]_vars

\* C12 witness: a checksum cut short by one byte is rejected by load on a
\* live handle that stores and pins modules.
C12_Witness ==
    /\ last.op = "load" /\ last.cache \in Live
    /\ ~last.arg.is_nil /\ Len(last.arg.bytes) = ChecksumLen - 1
    /\ last.err = Error_vm_err("Checksum not of length 32")
    /\ wasm_store[last.cache] # {} /\ pinned[last.cache] # {}

\* C13: init_cache rejects, before Cache::new, a data_dir that is absent or
\* of zero length (empty-argument error naming the data_dir), a data_dir
\* that is not UTF-8 (invalid-UTF-8 error) and supported_features that are
\* absent or not UTF-8; Cache::new is not called and no handle is produced.
C13_InitRejectsBadArgs ==
    [][last'.op = "init" =>
          LET data_dir == last'.arg
              supported_features == last'.arg2
              Rejected == /\ ~last'.ok
                          /\ ~last'.engine
                          /\ last'.ret = PtrValue(NULL)
                          /\ UNCHANGED handles
          IN  /\ (data_dir.is_nil \/ Len(data_dir.bytes) = 0)
                    => Rejected /\ last'.err = Error_empty_arg(DATA_DIR_ARG)
              /\ (~data_dir.is_nil /\ ~from_utf8(data_dir.bytes).ok)
                    => Rejected /\ last'.err = Error_invalid_utf8
              /\ (supported_features.is_nil \/ ~from_utf8(supported_features.bytes).ok)
                    => Rejected]_vars

\* C13 without the zero-length data_dir (what the code does): an absent
\* data_dir, a data_dir that is not UTF-8 and supported_features that are
\* absent or not UTF-8 are rejected before Cache::new.
C13_InitRejectsAbsentOrUndecodable ==
    [][last'.op = "init" =>
          LET data_dir == last'.arg
              supported_features == last'.arg2
              Rejected == /\ ~last'.ok
                          /\ ~last'.engine
                          /\ last'.ret = PtrValue(NULL)
                          /\ UNCHANGED handles
          IN  /\ data_dir.is_nil
                    => Rejected /\ last'.err = Error_empty_arg(DATA_DIR_ARG)
              /\ (~data_dir.is_nil /\ ~from_utf8(data_dir.bytes).ok)
                    => Rejected /\ last'.err = Error_invalid_utf8
              /\ (supported_features.is_nil \/ ~from_utf8(supported_features.bytes).ok)
                    => Rejected]_vars

\* A present data_dir of zero length has gone through Cache::new and
\* init_cache has returned a handle.
C13_EmptyDirAccepted ==
    /\ last.op = "init"
    /\ ~last.arg.is_nil /\ Len(last.arg.bytes) = 0
    /\ last.engine /\ last.ok
    /\ last.ret.ptr \in Live

\* A failing call is followed; the message it left.
Followed == last.call.op # "none"
FollowedMessage == ErrorMessage(last.call.err)

OnlyOtherHandles == Followed /\ last.call.cache # NULL /\ ~last.between.off

\* The engine behind the handle of the followed call is as that call left
\* it, so that a load on it returns what it would have returned then.
FollowedHandleUntouched ==
    LET H1 == last.call.cache
    IN  /\ handles[H1] = "live"
        /\ wasm_store[H1] = last.left.store
        /\ pinned[H1] = last.left.pins
        /\ \A checksum \in ThreadChecksumArgs :
              load_wasm_result(H1, checksum, FALSE).r
                  = Cache_load_wasm(last.left.store, last.left.pins, checksum.bytes).r

\* C15 as stated: calls on other handles (release included) change nothing
\* of what the calls on a handle H1 return, nor the message the caller of
\* a failing call on H1 reads from the last-error slot afterwards.
C15_DistinctHandlesNeverInterfere ==
    OnlyOtherHandles =>
        /\ FollowedHandleUntouched
        /\ last.read => last.got = FollowedMessage

\* C15 (amended): calls on other handles (release included) leave the
\* lifecycle state and the stored and pinned modules of H1 as they were,
\* and with them what a call on H1 returns; the message read from the
\* last-error slot is not covered.
C15_DistinctHandlesKeepEngine ==
    OnlyOtherHandles => FollowedHandleUntouched

\* C15 witness: after a failing call on a handle that stores and pins a
\* module, other threads have made a successful and a failing call on
\* another handle, which has then been released.
C15_Witness ==
    /\ OnlyOtherHandles
    /\ last.left.store # {} /\ last.left.pins # {}
    /\ last.between.ok /\ last.between.fail
    /\ \E h \in Handle : h # last.call.cache /\ handles[h] = "released"

\* C16: a successful init, save, load, pin, unpin or analyze leaves the
\* caller's out_error as it was before the call: no message is written
\* into it, and one that was empty (or not passed) is so afterwards.
C16_SuccessLeavesOutError ==
    (last.op \in FallibleOps /\ last.ok) =>
        /\ last.err_out.present = last.err_in.present
        /\ last.err_out.bytes = last.err_in.bytes \/ last.err_out.bytes = <<>>
        /\ last.err_in.bytes = <<>> => last.err_out.bytes = <<>>

\* C16 witness: a successful analyze called with an out_error that still
\* holds an older message, after a failing call has filled the slot.
C16_Witness ==
    /\ last.op = "analyze" /\ last.ok
    /\ last.ret = ReportValue(TRUE)
    /\ last.err_in = ErrParam(STALE)
    /\ last.err_out = ErrParam(STALE)

\* C17: a pointer becomes live only by a successful init_cache that returns
\* it and was absent before; only release_cache of that pointer takes it
\* from live to released, and does so; a released pointer stays released;
\* save, load, pin, unpin and analyze, whether they succeed, fail or panic
\* inside, leave the state of every pointer as it was.
C17_HandleLifecycle ==
    [][/\ \A h \in Handle :
            /\ (handles[h] # "live" /\ handles'[h] = "live") =>
                   /\ handles[h] = "absent"
                   /\ last'.op = "init" /\ last'.ok /\ last'.ret = PtrValue(h)
            /\ (handles[h] = "live" /\ handles'[h] # "live") =>
                   /\ handles'[h] = "released"
                   /\ last'.op = "release" /\ last'.cache = h
            /\ handles[h] = "released" => handles'[h] = "released"
            /\ handles'[h] = "absent" => handles[h] = "absent"
       /\ (last'.op = "init" /\ last'.ok) =>
               /\ last'.ret.ptr \in Handle
               /\ handles[last'.ret.ptr] = "absent"
               /\ handles'[last'.ret.ptr] = "live"
       /\ (last'.op = "release" /\ last'.cache # NULL) =>
               /\ handles[last'.cache] = "live"
               /\ handles'[last'.cache] = "released"
       /\ last'.op \in FacadeOps => UNCHANGED handles]_vars

\* C17 witness: a pin that panicked inside has returned on a live handle
\* that still stores a module, after another handle has been released.
C17_Witness ==
    /\ last.op = "pin" /\ last.fault
    /\ handles[last.cache] = "live"
    /\ wasm_store[last.cache] # {}
    /\ \E h \in Handle : handles[h] = "released"

\* What `op` on `cache` does with a checksum passed for the first time.
FirstUse(op, cache, checksum, fault) ==
    CASE op = "load" -> load_wasm_result(cache, checksum, fault)
      [] op = "pin" -> pin_result(cache, checksum, fault)
      [] op = "unpin" -> unpin_result(cache, checksum, fault)
      [] op = "analyze" -> analyze_code_result(cache, checksum, fault)

\* C18: no call changes the caller's module buffer or the checksum buffer
\* it holds from a save_wasm, and every load_wasm, pin, unpin and
\* analyze_code passed that checksum buffer, however often it has been
\* passed before, receives the checksum save_wasm returned and does what
\* it does with that checksum passed for the first time.
C18_InputsOnlyBorrowed ==
    [][/\ last'.wasm = last.wasm
       /\ ~last.checksum.is_nil => last'.checksum = last.checksum
       /\ last'.call.op \in ChecksumOps =>
             LET returned == Buf(Checksum_generate(last.wasm.bytes))
                 cache == last'.call.cache
                 first == FirstUse(last'.call.op, cache, returned, last'.call.fault)
             IN  /\ last.checksum = returned
                 /\ last'.call.arg = returned
                 /\ last'.call.ok = first.r.ok
                 /\ last'.call.err = first.r.err
                 /\ (last'.call.op = "load" /\ first.r.ok)
                       => last'.call.ret = BufValue(first.r.val.buf)
                 /\ cache # NULL => /\ wasm_store'[cache] = first.store
                                    /\ pinned'[cache] = first.pins]_vars

\* C18 witness: the checksum buffer has been passed to load_wasm, pin,
\* unpin and analyze_code, and a load_wasm passed it once more returns the
\* module of the caller's module buffer from a handle that pins it.
C18_Witness ==
    /\ last.used = ChecksumOps
    /\ last.call.op = "load" /\ last.call.ok
    /\ last.call.pre_pinned
    /\ last.call.arg = last.checksum
    /\ last.call.ret.buf = last.wasm.bytes
====
